---- MODULE Spec2Model ----
(***************************************************************************)
(* A model of ssj::JSON (src/src/JSON.cpp, src/src/JSONElement.h,          *)
(* src/JSON/JSON.h): the lexer, the recursive-descent parser, the element  *)
(* tree and its serializer, and the constructor's error contract.          *)
(*                                                                         *)
(* A text is a sequence of one-character strings; a token is a text.       *)
(* The parser's recursion is an explicit call stack; every action is one   *)
(* step of the code between two calls or returns.                          *)
(***************************************************************************)
EXTENDS Integers, Sequences, FiniteSets

VARIABLES
    text,       \* the json argument of the constructor
    pErr,       \* whether the caller passed an error slot (pErr != nullptr)
    slot,       \* the caller's Error variable, *pErr
    acceptCI,   \* m_bAcceptCaseInsensitiveLiterals
    tokens,     \* the vector Lex returned
    lexed,      \* what Lex did: the tokens it pushed, where each began, its Error
    past,       \* what the memory after the vector's last token turned out to hold
    pc,         \* where the control is
    it,         \* the iterator, as an index into tokens; end is Len(tokens) + 1
    key,        \* the key argument of the running Parse call
    stack,      \* the ParseObjectElement / ParseArrayElement calls in progress
    heap,       \* the elements allocated so far; an element's pointer is its index
    pOut,       \* pOutElement of the Parse call that last returned (0 is nullptr)
    rootObj,    \* m_pRootObject (0 is nullptr)
    outcome,    \* how the constructor call ended
    thrown,     \* the Error that left the constructor as an exception
    oob,        \* whether an iterator at or after end() has been dereferenced
    round,      \* 1: the caller's text; 2: the text serialized from round 1's tree
    s1          \* round 1's serialization, once round 2 began

vars == <<text, pErr, slot, acceptCI, tokens, lexed, past, pc, it, key, stack,
          heap, pOut, rootObj, outcome, thrown, oob, round, s1>>

----------------------------------------------------------------------------
(* Error codes: JSON.h, enum Error *)

E_NO_ERROR == 0
E_INVALID_JSON == 1001
E_LEXING_ERR_INVALID_VALUE == 1101
E_LEXING_ERR_INVALID_STRING == 1102
E_INVALID_JSON_KEY_STRING == 1201
E_INVALID_JSON_KEY_COLON == 1202
E_PARSE_ERR_INVALID_STRING == 1301
E_PARSE_ERR_UNKNOWN_ELEMENT == 1302
E_PARSE_ERR_INVALID_NUMBER == 1303
E_PARSE_ERROR_INVALID_LITERAL_CASE == 1304
E_PARSE_ERR_INVALID_OBJECT == 1401
E_PARSE_ERR_OBJECT_OPENING_BRACKET == 1402
E_PARSE_ERR_OBJECT_CLOSING_BRACKET == 1403
E_PARSE_ERR_INVALID_ARRAY == 1501
E_PARSE_ERR_ARRAY_OPENING_BRACKET == 1502
E_PARSE_ERR_ARRAY_CLOSING_BRACKET == 1503

ErrorCodes ==
    { E_INVALID_JSON, E_LEXING_ERR_INVALID_VALUE, E_LEXING_ERR_INVALID_STRING,
      E_INVALID_JSON_KEY_STRING, E_INVALID_JSON_KEY_COLON,
      E_PARSE_ERR_INVALID_STRING, E_PARSE_ERR_UNKNOWN_ELEMENT,
      E_PARSE_ERR_INVALID_NUMBER, E_PARSE_ERROR_INVALID_LITERAL_CASE,
      E_PARSE_ERR_INVALID_OBJECT, E_PARSE_ERR_OBJECT_OPENING_BRACKET,
      E_PARSE_ERR_OBJECT_CLOSING_BRACKET, E_PARSE_ERR_INVALID_ARRAY,
      E_PARSE_ERR_ARRAY_OPENING_BRACKET, E_PARSE_ERR_ARRAY_CLOSING_BRACKET }

----------------------------------------------------------------------------
(* Characters and strings *)

QUOTE == "\""
BACKSLASH == "\\"

\* std::string::npos, for positions counted from 1
npos == 0

Digits == {"0", "1", "2", "3", "4", "5", "6", "7", "8", "9"}

RECURSIVE Concat(_)
Concat(ss) == IF ss = <<>> THEN <<>> ELSE Head(ss) \o Concat(Tail(ss))

\* str.find(c, offset)
RECURSIVE Find(_, _, _)
Find(str, c, offset) ==
    IF offset > Len(str) THEN npos
    ELSE IF str[offset] = c THEN offset
    ELSE Find(str, c, offset + 1)

\* str.find_last_of(c)
RECURSIVE FindLastOf(_, _, _)
FindLastOf(str, c, from) ==
    IF from < 1 THEN npos
    ELSE IF str[from] = c THEN from
    ELSE FindLastOf(str, c, from - 1)

\* std::toupper on the letters of the literal names
ToUpper(c) ==
    CASE c = "t" -> "T" [] c = "r" -> "R" [] c = "u" -> "U" [] c = "e" -> "E"
      [] c = "f" -> "F" [] c = "a" -> "A" [] c = "l" -> "L" [] c = "s" -> "S"
      [] c = "n" -> "N" [] c = "x" -> "X" [] c = "g" -> "G" [] c = "q" -> "Q"
      [] c = "b" -> "B"
      [] OTHER -> c

CharCompare(c1, c2) == c1 = c2 \/ ToUpper(c1) = ToUpper(c2)

EqualIgnoreCase(a, b) ==
    /\ Len(a) = Len(b)
    /\ \A i \in 1..Len(a) : CharCompare(a[i], b[i])

LitTrue == <<"t", "r", "u", "e">>
LitFalse == <<"f", "a", "l", "s", "e">>
LitNull == <<"n", "u", "l", "l">>

----------------------------------------------------------------------------
(* The lexer *)

Whitespace == {" ", "\r", "\n", "\t"}
Structural == {"{", "}", "[", "]", ":", ","}

\* FindClosingCharacter's closingChars
closingChars == {"{", "}", "[", "]", ",", " ", "\r", "\n", "\t"}

RECURSIVE FindClosingQuotationMark(_, _)
FindClosingQuotationMark(str, offset) ==
    LET endPos == Find(str, QUOTE, offset)
    IN  IF endPos = npos THEN npos
        ELSE IF str[endPos - 1] # BACKSLASH THEN endPos
        ELSE FindClosingQuotationMark(str, endPos + 1)

RECURSIVE FindClosingCharacter(_, _)
FindClosingCharacter(str, offset) ==
    IF offset > Len(str) THEN npos
    ELSE IF str[offset] \in closingChars THEN offset
    ELSE FindClosingCharacter(str, offset + 1)

\* The loop of Lex from position pos on, with the tokens pushed so far and
\* the position each began at. err is the Error thrown, or E_NO_ERROR; at is
\* the position of the character Lex threw at.
RECURSIVE LexFrom(_, _, _, _)
LexFrom(str, pos, toks, sts) ==
    IF pos > Len(str)
    THEN [err |-> E_NO_ERROR, tokens |-> toks, starts |-> sts, at |-> npos]
    ELSE IF str[pos] \in Whitespace THEN LexFrom(str, pos + 1, toks, sts)
    ELSE IF str[pos] \in Structural
    THEN LexFrom(str, pos + 1, Append(toks, <<str[pos]>>), Append(sts, pos))
    ELSE IF str[pos] = QUOTE
    THEN LET endPos == FindClosingQuotationMark(str, pos + 1)
         IN  IF endPos # npos
             THEN LexFrom(str, endPos + 1,
                          Append(toks, SubSeq(str, pos, endPos)), Append(sts, pos))
             ELSE [err |-> E_LEXING_ERR_INVALID_STRING, tokens |-> toks, starts |-> sts,
                   at |-> pos]
    ELSE LET endPos == FindClosingCharacter(str, pos)
         IN  IF endPos # npos
             THEN LexFrom(str, endPos,
                          Append(toks, SubSeq(str, pos, endPos - 1)), Append(sts, pos))
             ELSE [err |-> E_LEXING_ERR_INVALID_VALUE, tokens |-> toks, starts |-> sts,
                   at |-> pos]

Lex(str) == LexFrom(str, 1, <<>>, <<>>)

\* before Lex ran
NotLexed == [err |-> E_NO_ERROR, tokens |-> <<>>, starts |-> <<>>, at |-> npos]

----------------------------------------------------------------------------
(* Numbers.  A 64-bit integer is kept as a sign and its decimal digits, a   *)
(* long double as a sign, integer digits and fraction digits: the model     *)
(* covers decimal tokens of at most MaxDecimalDigits digits with one '.'    *)
(* and no exponent, which a long double holds exactly enough to print back. *)

validChars == Digits \cup {"+", "-", ".", "e", "E"}

IsValidNumber(tok) == \A i \in 1..Len(tok) : tok[i] \in validChars

IsValidDecimal(tok) == \E i \in 1..Len(tok) : tok[i] = "."

DigitVal(c) ==
    CASE c = "0" -> 0 [] c = "1" -> 1 [] c = "2" -> 2 [] c = "3" -> 3
      [] c = "4" -> 4 [] c = "5" -> 5 [] c = "6" -> 6 [] c = "7" -> 7
      [] c = "8" -> 8 [] c = "9" -> 9

\* the longest run of digits of str from position i on
RECURSIVE DigitRun(_, _)
DigitRun(str, i) ==
    IF i <= Len(str) /\ str[i] \in Digits
    THEN <<str[i]>> \o DigitRun(str, i + 1)
    ELSE <<>>

RECURSIVE StripZeros(_)
StripZeros(ds) ==
    IF Len(ds) > 1 /\ Head(ds) = "0" THEN StripZeros(Tail(ds)) ELSE ds

\* a > b, for digit strings without leading zeros
RECURSIVE DigitsGreater(_, _)
DigitsGreater(a, b) ==
    IF Len(a) # Len(b) THEN Len(a) > Len(b)
    ELSE IF a = <<>> THEN FALSE
    ELSE IF Head(a) # Head(b) THEN DigitVal(Head(a)) > DigitVal(Head(b))
    ELSE DigitsGreater(Tail(a), Tail(b))

\* LLONG_MAX and -LLONG_MIN
LLongMaxDigits ==
    <<"9","2","2","3","3","7","2","0","3","6","8","5","4","7","7","5","8","0","7">>
LLongMinDigits ==
    <<"9","2","2","3","3","7","2","0","3","6","8","5","4","7","7","5","8","0","8">>

HasSign(tok) == Len(tok) > 0 /\ tok[1] \in {"+", "-"}

\* std::stoll(tok): strtoll converts the longest prefix "[+-]digits" and
\* ignores what follows; no digits is std::invalid_argument, a value outside
\* long long is std::out_of_range.
stoll(tok) ==
    LET from == IF HasSign(tok) THEN 2 ELSE 1
        neg == HasSign(tok) /\ tok[1] = "-"
        run == DigitRun(tok, from)
        mag == StripZeros(run)
    IN  IF run = <<>> THEN [res |-> "invalid_argument", neg |-> FALSE, digits |-> <<>>]
        ELSE IF DigitsGreater(mag, IF neg THEN LLongMinDigits ELSE LLongMaxDigits)
        THEN [res |-> "out_of_range", neg |-> FALSE, digits |-> <<>>]
        ELSE [res |-> "ok", neg |-> neg /\ mag # <<"0">>, digits |-> mag]

\* std::stold(tok) on a token without exponent: strtold converts the longest
\* prefix "[+-]digits[.digits]" holding a digit; none is std::invalid_argument.
stold(tok) ==
    LET from == IF HasSign(tok) THEN 2 ELSE 1
        neg == HasSign(tok) /\ tok[1] = "-"
        ip == DigitRun(tok, from)
        dot == from + Len(ip)
        fp == IF dot <= Len(tok) /\ tok[dot] = "." THEN DigitRun(tok, dot + 1) ELSE <<>>
    IN  IF ip = <<>> /\ fp = <<>>
        THEN [res |-> "invalid_argument", neg |-> FALSE, digits |-> <<>>, frac |-> <<>>]
        ELSE [res |-> "ok", neg |-> neg,
              digits |-> IF ip = <<>> THEN <<"0">> ELSE StripZeros(ip), frac |-> fp]

\* std::to_string(long long)
IntToString(neg, digits) == (IF neg THEN <<"-">> ELSE <<>>) \o digits

RECURSIVE Zeros(_)
Zeros(n) == IF n <= 0 THEN <<>> ELSE <<"0">> \o Zeros(n - 1)

\* out << std::fixed << d with out.precision(p), for a d with at most p
\* fraction digits
FixedToString(neg, digits, frac, p) ==
    (IF neg THEN <<"-">> ELSE <<>>) \o digits \o <<".">> \o frac \o Zeros(p - Len(frac))

\* std::to_string(long double) is printf("%Lf"): six fraction digits
ToStringPrecision == 6

----------------------------------------------------------------------------
(* The element tree: JSONElement.h.  heap[p] is the element p points to. *)

OBJECT_T == "OBJECT_T"
ARRAY_T == "ARRAY_T"
STRING_T == "STRING_T"
BOOLEAN_T == "BOOLEAN_T"
NUMBER_T == "NUMBER_T"
NULL_T == "NULL_T"

TYPE_UNDEFINED == "TYPE_UNDEFINED"
TYPE_INTEGER == "TYPE_INTEGER"
TYPE_DECIMAL == "TYPE_DECIMAL"

\* JSONElement(type, key): no parent, no children, no value yet
NewElement(type, k) ==
    [type |-> type, key |-> k, parent |-> 0, children |-> <<>>,
     sval |-> <<>>, bval |-> FALSE,
     ntype |-> TYPE_UNDEFINED, neg |-> FALSE, digits |-> <<>>, frac |-> <<>>,
     precision |-> 0]

IsObject(e) == e.type = OBJECT_T

\* a FormatKey that writes the key without its quotation marks
FormatKeyUnquoted(e) ==
    IF Len(e.key) > 0 THEN e.key \o <<":">> ELSE <<>>
\* JSONElement::FormatKey: "key": for a member, nothing for a keyless element
FormatKey(e) ==
    IF Len(e.key) > 0 THEN <<QUOTE>> \o e.key \o <<QUOTE>> \o <<":">> ELSE <<>>

\* an AddChild that puts the new child first
AddChildFront(children, p) == <<p>> \o children
\* ObjectElement::AddChild, ArrayElement::AddElement: push_back
AddChild(children, p) == Append(children, p)

NumberBody(e) ==
    CASE e.ntype = TYPE_INTEGER -> IntToString(e.neg, e.digits)
      [] e.ntype = TYPE_DECIMAL ->
            IF e.precision > 0
            THEN FixedToString(e.neg, e.digits, e.frac, e.precision)
            ELSE FixedToString(e.neg, e.digits, e.frac, ToStringPrecision)
      [] OTHER -> <<>>

RECURSIVE ToString(_, _)
RECURSIVE JoinChildren(_, _, _)
\* the loop of ObjectElement::ToString and ArrayElement::ToString
JoinChildren(h, cs, bFirst) ==
    IF cs = <<>> THEN <<>>
    ELSE (IF bFirst THEN <<>> ELSE <<",">>) \o ToString(h, Head(cs))
         \o JoinChildren(h, Tail(cs), FALSE)

ToString(h, p) ==
    LET e == h[p]
    IN  CASE e.type = OBJECT_T ->
                FormatKey(e) \o <<"{">> \o JoinChildren(h, e.children, TRUE) \o <<"}">>
          [] e.type = ARRAY_T ->
                FormatKey(e) \o <<"[">> \o JoinChildren(h, e.children, TRUE) \o <<"]">>
          [] e.type = STRING_T ->
                FormatKey(e) \o <<QUOTE>> \o e.sval \o <<QUOTE>>
          [] e.type = NUMBER_T -> FormatKey(e) \o NumberBody(e)
          [] e.type = BOOLEAN_T ->
                FormatKey(e) \o (IF e.bval THEN LitTrue ELSE LitFalse)
          [] e.type = NULL_T -> FormatKey(e) \o LitNull

----------------------------------------------------------------------------
(* Reading tokens.  Dereferencing an iterator at or after end() is          *)
(* undefined: the read either faults or yields whatever the memory after    *)
(* the vector holds, which stays what it was found to be.                   *)

\* how many tokens' worth of memory after the vector can be read at all
MaxPast == 2

\* what that memory may hold
Garbage == { <<"}">>, <<"]">>, <<",">>, <<"?">> }

End == Len(tokens) + 1

Readable(p) == p <= Len(tokens) + Len(past)

Tok(p) == IF p <= Len(tokens) THEN tokens[p] ELSE past[p - Len(tokens)]

\* a key condition that lets the empty "" through
KeyTokenOkAnyLength(t) == Len(t) >= 2 /\ t[1] = QUOTE /\ t[Len(t)] = QUOTE
\* the condition ParseKey puts on the key token
KeyTokenOk(t) == Len(t) > 2 /\ t[1] = QUOTE /\ t[Len(t)] = QUOTE

\* an item key that is the key of the array itself
ItemKeyOfArray(k) == k
\* the key ParseArrayElement passes to Parse for an item
ItemKey(k) == <<>>

Top == stack[Len(stack)]

\* the position the step at pc dereferences (0: none)
Need ==
    CASE pc = "Parse" -> IF it = End THEN 0 ELSE it
      [] pc \in {"ObjectLoop", "ArrayLoop"} -> it + 1
      [] pc = "ParseKey" ->
            IF it # End /\ KeyTokenOk(Tok(it)) /\ it + 1 # End THEN it + 1 ELSE 0
      [] pc \in {"ObjectChild", "ArrayItem"} -> IF pOut # 0 THEN it + 1 ELSE 0
      [] OTHER -> 0

CanStep == Need = 0 \/ Readable(Need)

----------------------------------------------------------------------------
(* How the constructor ends *)

\* throw e, caught at JSON.cpp:39: stored in the slot, or rethrown
Throw(e) ==
    /\ pc' = "done"
    /\ IF pErr
       THEN slot' = e /\ outcome' = "returned" /\ thrown' = E_NO_ERROR
       ELSE slot' = slot /\ outcome' = "threw" /\ thrown' = e

\* an exception that is not an Error passes the catch clause
Escape(what) ==
    /\ pc' = "done"
    /\ outcome' = what
    /\ UNCHANGED <<slot, thrown>>

\* Parse returns newIt with pOutElement = p: to the production that called
\* it, or to the constructor
ReturnTo(stk, newIt, p) ==
    /\ it' = newIt
    /\ pOut' = p
    /\ stack' = stk
    /\ pc' = IF stk = <<>> THEN "Root"
             ELSE IF stk[Len(stk)].fn = "obj" THEN "ObjectChild" ELSE "ArrayItem"
    /\ UNCHANGED <<slot, outcome, thrown>>

----------------------------------------------------------------------------
(* The constructor and the parser *)

\* a constructor that leaves the flag as it finds it
AcceptCaseInsensitiveLiteralsKept == acceptCI
\* the value the constructor gives m_bAcceptCaseInsensitiveLiterals
AcceptCaseInsensitiveLiteralsDefault == TRUE

\* JSON::JSON up to the call of Parse: the slot is cleared, the flag set,
\* the text lexed
Construct ==
    /\ pc = "Construct"
    /\ acceptCI' = AcceptCaseInsensitiveLiteralsDefault
    /\ LET r == Lex(text)
       IN  /\ lexed' = r
           /\ IF r.err # E_NO_ERROR
              THEN /\ tokens' = <<>>
                   /\ Throw(r.err)
                   /\ UNCHANGED <<it, key, stack, pOut>>
              ELSE /\ tokens' = r.tokens
                   /\ pc' = "Parse"
                   /\ it' = 1
                   /\ key' = <<>>
                   /\ stack' = <<>>
                   /\ pOut' = 0
                   /\ slot' = IF pErr THEN E_NO_ERROR ELSE slot
                   /\ UNCHANGED <<outcome, thrown>>
    /\ UNCHANGED <<text, pErr, past, heap, rootObj, oob, round, s1>>

\* the memory after the vector is read and holds g
ReadPastEnd ==
    /\ pc \notin {"Construct", "done"}
    /\ ~CanStep
    /\ Len(past) < MaxPast
    /\ \E g \in Garbage : past' = Append(past, g)
    /\ oob' = TRUE
    /\ UNCHANGED <<text, pErr, slot, acceptCI, tokens, lexed, pc, it, key, stack,
                   heap, pOut, rootObj, outcome, thrown, round, s1>>

\* the read after the vector faults
Segfault ==
    /\ pc \notin {"Construct", "done"}
    /\ ~CanStep
    /\ oob' = TRUE
    /\ Escape("crashed")
    /\ UNCHANGED <<text, pErr, acceptCI, tokens, lexed, past, it, key, stack,
                   heap, pOut, rootObj, round, s1>>

ParseFrame == <<text, pErr, acceptCI, tokens, lexed, past, rootObj, oob, round, s1>>

\* Parse with begin == end: the loop body never runs
ParseAtEnd ==
    /\ pc = "Parse"
    /\ it = End
    /\ ReturnTo(stack, End, 0)
    /\ UNCHANGED <<key, heap>>
    /\ UNCHANGED ParseFrame

ParseGuard == pc = "Parse" /\ it # End /\ CanStep

\* the token Parse hands to ParseObjectElement
IsObjectToken(t) == t = <<"{">>

\* the token Parse hands to ParseArrayElement
IsArrayToken(t) == t = <<"[">>

\* Parse on "{": ParseObjectElement checks the opening bracket, allocates the
\* object and enters its loop
ParseObjectOpen ==
    /\ ParseGuard
    /\ IsObjectToken(Tok(it))
    /\ IF Tok(it) # <<"{">>
       THEN /\ Throw(E_PARSE_ERR_OBJECT_OPENING_BRACKET)
            /\ UNCHANGED <<it, key, pOut, stack, heap>>
       ELSE /\ heap' = Append(heap, NewElement(OBJECT_T, key))
            /\ stack' = Append(stack, [fn |-> "obj", elem |-> Len(heap) + 1])
            /\ pc' = "ObjectLoop"
            /\ UNCHANGED <<it, key, pOut, slot, outcome, thrown>>
    /\ UNCHANGED ParseFrame

\* Parse on "[": ParseArrayElement allocates the array and enters its loop
ParseArrayOpen ==
    /\ ParseGuard
    /\ ~IsObjectToken(Tok(it))
    /\ IsArrayToken(Tok(it))
    /\ IF Tok(it) # <<"[">>
       THEN /\ Throw(E_PARSE_ERR_ARRAY_OPENING_BRACKET)
            /\ UNCHANGED <<it, key, pOut, stack, heap>>
       ELSE /\ heap' = Append(heap, NewElement(ARRAY_T, key))
            /\ stack' = Append(stack, [fn |-> "arr", elem |-> Len(heap) + 1])
            /\ pc' = "ArrayLoop"
            /\ UNCHANGED <<it, key, pOut, slot, outcome, thrown>>
    /\ UNCHANGED ParseFrame

IsStringToken(t) == Len(t) > 0 /\ t[1] = QUOTE

\* a string condition that lets the empty "" through
StringTokenOkAnyLength(t) == Len(t) >= 2 /\ t[1] = QUOTE /\ t[Len(t)] = QUOTE
\* the condition ParseStringElement puts on the token
StringTokenOk(t) == Len(t) > 2 /\ t[1] = QUOTE /\ t[Len(t)] = QUOTE

\* Parse on a token that begins with a quote: ParseStringElement
ParseStringElement ==
    /\ ParseGuard
    /\ LET t == Tok(it)
       IN  /\ IsStringToken(t)
           /\ IF StringTokenOk(t)
              THEN /\ heap' = Append(heap, [NewElement(STRING_T, key) EXCEPT
                                               !.sval = SubSeq(t, 2, Len(t) - 1)])
                   /\ ReturnTo(stack, it, Len(heap) + 1)
              ELSE /\ Throw(E_PARSE_ERR_INVALID_STRING)
                   /\ UNCHANGED <<it, pOut, stack, heap>>
    /\ UNCHANGED key
    /\ UNCHANGED ParseFrame

IsBoolToken(t) == EqualIgnoreCase(t, LitTrue) \/ EqualIgnoreCase(t, LitFalse)

\* BoolElement::SetBoolean's argument at JSON.cpp:162
BoolOfToken(t) == t[1] = "t"

\* Parse on a token that is true or false but for case
ParseBool ==
    /\ ParseGuard
    /\ LET t == Tok(it)
       IN  /\ ~IsObjectToken(t) /\ ~IsArrayToken(t) /\ ~IsStringToken(t)
           /\ IsBoolToken(t)
           /\ IF ~acceptCI /\ t # LitTrue /\ t # LitFalse
              THEN /\ Throw(E_PARSE_ERROR_INVALID_LITERAL_CASE)
                   /\ UNCHANGED <<it, pOut, stack, heap>>
              ELSE /\ heap' = Append(heap, [NewElement(BOOLEAN_T, key) EXCEPT
                                               !.bval = BoolOfToken(t)])
                   /\ ReturnTo(stack, it, Len(heap) + 1)
    /\ UNCHANGED key
    /\ UNCHANGED ParseFrame

\* Parse on a token that is null but for case
ParseNull ==
    /\ ParseGuard
    /\ LET t == Tok(it)
       IN  /\ ~IsObjectToken(t) /\ ~IsArrayToken(t) /\ ~IsStringToken(t)
           /\ ~IsBoolToken(t)
           /\ EqualIgnoreCase(t, LitNull)
           /\ IF ~acceptCI /\ t # LitNull
              THEN /\ Throw(E_PARSE_ERROR_INVALID_LITERAL_CASE)
                   /\ UNCHANGED <<it, pOut, stack, heap>>
              ELSE /\ heap' = Append(heap, NewElement(NULL_T, key))
                   /\ ReturnTo(stack, it, Len(heap) + 1)
    /\ UNCHANGED key
    /\ UNCHANGED ParseFrame

IsLiteralToken(t) == IsBoolToken(t) \/ EqualIgnoreCase(t, LitNull)

\* the NumberElement ParseNumberElement builds from token t with key k, or
\* the exception the conversion throws
NumberOfToken(t, k) ==
    IF IsValidDecimal(t)
    THEN LET d == stold(t)
             pos == FindLastOf(t, ".", Len(t))
         IN  IF d.res # "ok" THEN [res |-> d.res, elem |-> NewElement(NUMBER_T, k)]
             ELSE [res |-> "ok",
                   elem |-> [NewElement(NUMBER_T, k) EXCEPT
                                !.ntype = TYPE_DECIMAL, !.neg = d.neg,
                                !.digits = d.digits, !.frac = d.frac,
                                !.precision = Len(t) - pos]]
    ELSE LET n == stoll(t)
         IN  IF n.res # "ok" THEN [res |-> n.res, elem |-> NewElement(NUMBER_T, k)]
             ELSE [res |-> "ok",
                   elem |-> [NewElement(NUMBER_T, k) EXCEPT
                                !.ntype = TYPE_INTEGER, !.neg = n.neg,
                                !.digits = n.digits]]

\* Parse on a token made of number characters: ParseNumberElement
ParseNumberElement ==
    /\ ParseGuard
    /\ LET t == Tok(it)
           r == NumberOfToken(t, key)
       IN  /\ ~IsObjectToken(t) /\ ~IsArrayToken(t) /\ ~IsStringToken(t)
           /\ ~IsLiteralToken(t)
           /\ IsValidNumber(t)
           /\ IF r.res = "ok"
              THEN /\ heap' = Append(heap, r.elem)
                   /\ ReturnTo(stack, it, Len(heap) + 1)
              ELSE /\ IF r.res = "invalid_argument"
                      THEN Throw(E_PARSE_ERR_INVALID_NUMBER)
                      ELSE Escape("out_of_range")
                   /\ UNCHANGED <<it, pOut, stack, heap>>
    /\ UNCHANGED key
    /\ UNCHANGED ParseFrame

\* Parse on any other token
ParseUnknown ==
    /\ ParseGuard
    /\ LET t == Tok(it)
       IN  /\ ~IsObjectToken(t) /\ ~IsArrayToken(t) /\ ~IsStringToken(t)
           /\ ~IsLiteralToken(t)
           /\ ~IsValidNumber(t)
    /\ Throw(E_PARSE_ERR_UNKNOWN_ELEMENT)
    /\ UNCHANGED <<it, key, pOut, stack, heap>>
    /\ UNCHANGED ParseFrame

\* ParseObjectElement / ParseArrayElement: the loop condition
\* "++it != end && *it != close", the skipped comma, and after the loop the
\* check of *it, which reads *end when the loop ran out of tokens
Loop(close, errClosing, pcMember) ==
    LET n == it + 1
        t == Tok(n)
    IN  /\ CanStep
        /\ IF n = End \/ t = close
           THEN IF t # close
                THEN /\ Throw(errClosing)
                     /\ it' = n
                     /\ UNCHANGED <<pOut, stack>>
                ELSE ReturnTo(SubSeq(stack, 1, Len(stack) - 1), n, Top.elem)
           ELSE /\ it' = n
                /\ pc' = IF t = <<",">> THEN pc ELSE pcMember
                /\ UNCHANGED <<pOut, stack, slot, outcome, thrown>>
        /\ UNCHANGED heap
        /\ UNCHANGED ParseFrame

ObjectLoop ==
    /\ pc = "ObjectLoop"
    /\ Loop(<<"}">>, E_PARSE_ERR_OBJECT_CLOSING_BRACKET, "ParseKey")
    /\ UNCHANGED key

\* an array item is parsed with the empty key
ArrayLoop ==
    /\ pc = "ArrayLoop"
    /\ Loop(<<"]">>, E_PARSE_ERR_ARRAY_CLOSING_BRACKET, "Parse")
    /\ key' = IF pc' = "Parse" THEN ItemKey(key) ELSE key

\* ParseKey, and on its return the call Parse(it, end, pChild, childKey)
ParseKey ==
    /\ pc = "ParseKey"
    /\ CanStep
    /\ IF ~(it # End /\ KeyTokenOk(Tok(it)))
       THEN /\ Throw(E_INVALID_JSON_KEY_STRING)
            /\ UNCHANGED <<it, key>>
       ELSE IF it + 1 = End \/ Tok(it + 1) # <<":">>
       THEN /\ Throw(E_INVALID_JSON_KEY_COLON)
            /\ UNCHANGED <<it, key>>
       ELSE /\ key' = SubSeq(Tok(it), 2, Len(Tok(it)) - 1)
            /\ it' = it + 2
            /\ pc' = "Parse"
            /\ UNCHANGED <<slot, outcome, thrown>>
    /\ pOut' = 0
    /\ UNCHANGED <<stack, heap>>
    /\ UNCHANGED ParseFrame

\* after Parse returned the member or item pOut: SetParent, AddChild /
\* AddElement, and the check of the token after it
Attach(close, errInvalid, pcLoop) ==
    /\ pOut # 0
    /\ CanStep
    /\ heap' = [heap EXCEPT ![pOut].parent = Top.elem,
                            ![Top.elem].children = AddChild(@, pOut)]
    /\ IF Tok(it + 1) # <<",">> /\ Tok(it + 1) # close
       THEN Throw(errInvalid)
       ELSE pc' = pcLoop /\ UNCHANGED <<slot, outcome, thrown>>
    /\ UNCHANGED <<it, key, pOut, stack>>
    /\ UNCHANGED ParseFrame

ObjectChild ==
    /\ pc = "ObjectChild"
    /\ Attach(<<"}">>, E_PARSE_ERR_INVALID_OBJECT, "ObjectLoop")

ArrayItem ==
    /\ pc = "ArrayItem"
    /\ Attach(<<"]">>, E_PARSE_ERR_INVALID_ARRAY, "ArrayLoop")

\* pChild->SetParent(...) with pChild == nullptr, when Parse was called at
\* end and built nothing: a write through a null pointer
NullChild ==
    /\ pc = "ObjectChild"
    /\ pOut = 0
    /\ Escape("crashed")
    /\ UNCHANGED <<it, key, pOut, stack, heap>>
    /\ UNCHANGED ParseFrame

\* a check of pRoot that lets any element through
RootIsAccepted(p) == p # 0
\* a check of pRoot that also wants every token consumed
RootIsObjectAtEnd(p) == p # 0 /\ IsObject(heap[p]) /\ it = Len(tokens)
\* the constructor's check of pRoot
RootIsObject(p) == p # 0 /\ IsObject(heap[p])

Root ==
    /\ pc = "Root"
    /\ IF RootIsObject(pOut)
       THEN /\ rootObj' = pOut
            /\ pc' = "done"
            /\ outcome' = "returned"
            /\ UNCHANGED <<slot, thrown>>
       ELSE /\ Throw(E_INVALID_JSON)
            /\ UNCHANGED rootObj
    /\ UNCHANGED <<text, pErr, acceptCI, tokens, lexed, past, it, key, stack,
                   heap, pOut, oob, round, s1>>

\* JSON::SetAcceptCaseInsensitiveLiterals, on a constructed JSON
SetAcceptCaseInsensitiveLiterals(bAccept) ==
    /\ pc = "done"
    /\ outcome = "returned"
    /\ acceptCI # bAccept
    /\ acceptCI' = bAccept
    /\ UNCHANGED <<text, pErr, slot, tokens, lexed, past, pc, it, key, stack,
                   heap, pOut, rootObj, outcome, thrown, oob, round, s1>>

SetAccept == \E b \in BOOLEAN : SetAcceptCaseInsensitiveLiterals(b)

\* the caller serializes the root and constructs a JSON from that text
Reparse ==
    /\ pc = "done"
    /\ outcome = "returned"
    /\ rootObj # 0
    /\ round = 1
    /\ LET s == ToString(heap, rootObj)
       IN  text' = s /\ s1' = s
    /\ round' = 2
    /\ pc' = "Construct"
    /\ outcome' = "running"
    /\ acceptCI' = FALSE
    /\ tokens' = <<>> /\ lexed' = NotLexed /\ past' = <<>>
    /\ it' = 1 /\ key' = <<>> /\ stack' = <<>> /\ heap' = <<>>
    /\ pOut' = 0 /\ rootObj' = 0 /\ oob' = FALSE
    /\ UNCHANGED <<pErr, slot, thrown>>

----------------------------------------------------------------------------
(* The texts the constructor is given: every well-formed document of at    *)
(* most MaxNodes elements over the base key and atoms, and every text one  *)
(* edit away from such a document of at most MaxEditedNodes elements: a    *)
(* lexeme replaced by any lexeme, a structural or space lexeme inserted, a *)
(* lexeme deleted, or the text cut short.                                  *)

MaxNodes == 3
MaxEditedNodes == 2

\* the longest decimal numeral whose digits a long double prints back
MaxDecimalDigits == 15

StructuralLexemes ==
    { <<"{">>,
      <<"}">>,
      <<"[">>,
      <<"]">>,
      <<":">>,
      <<",">> }
SpaceLexemes ==
    { <<" ">>,
      <<"\n">> }
StringLexemes ==
    { <<"\"", "s", "\"">>,
      <<"\"", "b", "\"">>,
      <<"\"", "\"">>,
      <<"\"", "q", "\\", "\"", "r", "\"">>,
      <<"\"">> }
LiteralLexemes ==
    { <<"t", "r", "u", "e">>,
      <<"T", "r", "u", "e">>,
      <<"t", "R", "U", "E">>,
      <<"f", "a", "l", "s", "e">>,
      <<"F", "A", "L", "S", "E">>,
      <<"n", "u", "l", "l">>,
      <<"N", "u", "l", "l">> }
NumberLexemes ==
    { <<"1">>,
      <<"0", "0", "7">>,
      <<"-", "5">>,
      <<"3", ".", "1", "4", "0", "0">>,
      <<"5", ".">>,
      <<"1", "e", "1", "0">>,
      <<"2", "E", "5">>,
      <<"9", "9", "9", "9", "9", "9", "9", "9", "9", "9", "9", "9", "9", "9", "9", "9", "9", "9", "9", "9">>,
      <<"-">> }
OtherLexemes ==
    { <<"x">> }

Lexemes ==
    StructuralLexemes \cup SpaceLexemes \cup StringLexemes \cup LiteralLexemes
        \cup NumberLexemes \cup OtherLexemes

BaseKeys == { <<"\"", "a", "\"">> }
BaseAtoms == { <<"\"", "s", "\"">>,
            <<"1">> }

\* v, rest: the items of a list, comma-separated
JoinList(v, rest) == IF rest = <<>> THEN v ELSE v \o <<<<",">>>> \o rest

RECURSIVE Values(_)
RECURSIVE ItemLists(_)
RECURSIVE MemberLists(_)

\* the lexeme sequences of the values of at most n elements
Values(n) ==
    IF n <= 0 THEN {}
    ELSE { <<a>> : a \in BaseAtoms }
         \cup { <<<<"{">>>> \o ms \o <<<<"}">>>> : ms \in MemberLists(n - 1) }
         \cup { <<<<"[">>>> \o is \o <<<<"]">>>> : is \in ItemLists(n - 1) }

ItemLists(n) ==
    {<<>>} \cup UNION { { JoinList(v, rest) : v \in Values(k), rest \in ItemLists(n - k) }
                        : k \in 1..n }

MemberLists(n) ==
    {<<>>} \cup UNION { { JoinList(<<k, <<":">>>> \o v, rest) :
                            k \in BaseKeys, v \in Values(j), rest \in MemberLists(n - j) }
                        : j \in 1..n }

BaseDocs == Values(MaxNodes)
EditedDocs == Values(MaxEditedNodes)

Edits(d) ==
    { [i \in 1..Len(d) |-> IF i = p THEN l ELSE d[i]] : p \in 1..Len(d), l \in Lexemes }
    \cup { SubSeq(d, 1, p) \o <<l>> \o SubSeq(d, p + 1, Len(d)) :
             p \in 0..Len(d), l \in StructuralLexemes \cup SpaceLexemes }
    \cup { SubSeq(d, 1, p - 1) \o SubSeq(d, p + 1, Len(d)) : p \in 1..Len(d) }
    \cup { SubSeq(d, 1, p) : p \in 0..Len(d) }

\* a decimal token the model's long double covers
ModelledToken(t) ==
    (IsValidNumber(t) /\ IsValidDecimal(t)) =>
        /\ Cardinality({i \in 1..Len(t) : t[i] = "."}) = 1
        /\ \A i \in 1..Len(t) : t[i] \notin {"e", "E"}
        /\ Cardinality({i \in 1..Len(t) : t[i] \in Digits}) <= MaxDecimalDigits

Modelled(str) ==
    LET toks == Lex(str).tokens
    IN  \A i \in 1..Len(toks) : ModelledToken(toks[i])

Inputs ==
    LET all == { Concat(d) : d \in BaseDocs }
                 \cup UNION { { Concat(e) : e \in Edits(d) } : d \in EditedDocs }
    IN  { str \in all : Modelled(str) }

----------------------------------------------------------------------------

Init ==
    /\ text \in Inputs
    /\ pErr \in BOOLEAN
    /\ slot = IF pErr THEN E_INVALID_JSON ELSE E_NO_ERROR
    /\ acceptCI = FALSE
    /\ tokens = <<>> /\ lexed = NotLexed /\ past = <<>>
    /\ pc = "Construct"
    /\ it = 1 /\ key = <<>> /\ stack = <<>> /\ heap = <<>>
    /\ pOut = 0 /\ rootObj = 0
    /\ outcome = "running"
    /\ thrown = E_NO_ERROR
    /\ oob = FALSE
    /\ round = 1
    /\ s1 = <<>>

Next ==
    \/ Construct
    \/ ReadPastEnd
    \/ Segfault
    \/ ParseAtEnd
    \/ ParseObjectOpen
    \/ ParseArrayOpen
    \/ ParseStringElement
    \/ ParseBool
    \/ ParseNull
    \/ ParseNumberElement
    \/ ParseUnknown
    \/ ObjectLoop
    \/ ParseKey
    \/ ObjectChild
    \/ NullChild
    \/ ArrayLoop
    \/ ArrayItem
    \/ Root
    \/ SetAccept
    \/ Reparse

Spec == Init /\ [][Next]_vars

----------------------------------------------------------------------------
(* What is checked *)

\* the Error the caller gets: in the slot, or as the exception
Err == IF pErr THEN slot ELSE thrown

\* the control points Parse returns to
ReturnPcs == {"Root", "ObjectChild", "ArrayItem"}

Succeeded == pc = "done" /\ outcome = "returned" /\ rootObj # 0

Elements == 1..Len(heap)

\* C1: a successful parse's serialization s1 parses again, and the tree of
\* that second parse serializes to s1.
RoundTrip ==
    (round = 2 /\ pc = "done") =>
        /\ outcome = "returned"
        /\ Err = E_NO_ERROR
        /\ rootObj # 0
        /\ ToString(heap, rootObj) = s1

\* the second parse ended on a tree with a decimal of recorded precision
\* inside an array or object
RoundTripWitness ==
    /\ round = 2 /\ pc = "done" /\ rootObj # 0
    /\ \E p \in Elements : heap[p].ntype = TYPE_DECIMAL /\ heap[p].precision > 0

\* C2: the element Parse returns for a token that is true, false or null
\* but for case is the Bool true, the Bool false or the Null.
LiteralsKeepMeaning ==
    (pc \in ReturnPcs /\ pOut # 0) =>
        LET t == Tok(it)
            e == heap[pOut]
        IN  /\ EqualIgnoreCase(t, LitTrue) => (e.type = BOOLEAN_T /\ e.bval)
            /\ EqualIgnoreCase(t, LitFalse) => (e.type = BOOLEAN_T /\ ~e.bval)
            /\ EqualIgnoreCase(t, LitNull) => e.type = NULL_T

\* C3: a constructor given a slot returns normally, with either no error and
\* an Object root, or an error code in the slot and no root.
SlotContract ==
    (pErr /\ pc = "done") =>
        /\ outcome = "returned"
        /\ \/ slot = E_NO_ERROR /\ rootObj # 0 /\ heap[rootObj].type = OBJECT_T
           \/ slot \in ErrorCodes /\ rootObj = 0

\* C4: when the text lexes and either holds no token or its top-level
\* element is not an Object, the constructor fails with E_INVALID_JSON and
\* exposes no root.
RootMustBeObject ==
    ( /\ pc = "done"
      /\ outcome \in {"returned", "threw"}
      /\ lexed.err = E_NO_ERROR
      /\ \/ lexed.tokens = <<>>
         \/ stack = <<>> /\ pOut # 0 /\ heap[pOut].type # OBJECT_T )
    => (Err = E_INVALID_JSON /\ rootObj = 0)

\* a top-level array was parsed and refused
RootMustBeObjectWitness ==
    /\ pc = "done" /\ stack = <<>> /\ pOut # 0
    /\ heap[pOut].type = ARRAY_T /\ heap[pOut].children # <<>>
    /\ Err = E_INVALID_JSON

\* what ParseKey does on the key token Tok(it), isKey telling whether the
\* token counts as a key: the key-string error exactly without a key, else
\* the key-colon error exactly without a ":" next, else the unquoted text
\* and the position after the colon
KeyOutcome(isKey) ==
    LET t == Tok(it)
        hasColon == it + 1 # End /\ Tok(it + 1) = <<":">>
    IN  /\ (pc' = "done" /\ Err' = E_INVALID_JSON_KEY_STRING) <=> ~isKey
        /\ isKey => ((pc' = "done" /\ Err' = E_INVALID_JSON_KEY_COLON) <=> ~hasColon)
        /\ (isKey /\ hasColon) =>
              (pc' = "Parse" /\ key' = SubSeq(t, 2, Len(t) - 1) /\ it' = it + 2)

QuotedToken(t) == Len(t) >= 2 /\ t[1] = QUOTE /\ t[Len(t)] = QUOTE
QuotedNonEmptyToken(t) == QuotedToken(t) /\ Len(t) # 2

\* C5, as claimed: a key is any token that begins and ends with a quote,
\* the empty "" too.
KeyProductionAnyQuoted == [][(pc = "ParseKey" /\ CanStep) => KeyOutcome(QuotedToken(Tok(it)))]_vars

\* C5, amended: a key is a token that begins and ends with a quote and has
\* something between them; "" gets the key-string error.
KeyProduction == [][(pc = "ParseKey" /\ CanStep) => KeyOutcome(QuotedNonEmptyToken(Tok(it)))]_vars

\* ParseKey refused the key ""
KeyProductionWitness ==
    /\ pc = "done" /\ stack # <<>> /\ Err = E_INVALID_JSON_KEY_STRING
    /\ Tok(it) = <<QUOTE, QUOTE>>

ContainersOf(p) ==
    { q \in Elements : \E i \in 1..Len(heap[q].children) : heap[q].children[i] = p }

\* C6: in the tree of a successful parse an element has a key exactly when
\* an Object holds it, the root and array items have none, every element
\* but the root is held by one container, and its parent is that container.
KeyInvariant ==
    Succeeded =>
        \A p \in Elements :
            LET qs == ContainersOf(p)
            IN  /\ (heap[p].key # <<>>) <=> (\E q \in qs : heap[q].type = OBJECT_T)
                /\ \A q \in qs : heap[q].type \in {OBJECT_T, ARRAY_T}
                /\ IF p = rootObj
                   THEN qs = {} /\ heap[p].parent = 0
                   ELSE Cardinality(qs) = 1 /\ heap[p].parent \in qs

\* a successful parse with an array that is an object member and holds an item
KeyInvariantWitness ==
    /\ Succeeded
    /\ \E p \in Elements :
          heap[p].type = ARRAY_T /\ heap[p].key # <<>> /\ heap[p].children # <<>>

\* the serialization of the element Parse builds from the one token t
Render(t) ==
    IF IsStringToken(t) THEN t
    ELSE IF IsBoolToken(t) THEN (IF BoolOfToken(t) THEN LitTrue ELSE LitFalse)
    ELSE IF EqualIgnoreCase(t, LitNull) THEN LitNull
    ELSE IF IsValidNumber(t) THEN NumberBody(NumberOfToken(t, <<>>).elem)
    ELSE t

NeedsComma(prev, t) ==
    /\ prev # <<>>
    /\ prev \notin {<<"{">>, <<"[">>, <<":">>}
    /\ t \notin {<<"}">>, <<"]">>, <<":">>}

\* the tokens i..last in their order, the input's commas dropped, each
\* member or item rendered, and one comma put between two neighbours
RECURSIVE InOrder(_, _, _)
InOrder(i, last, prev) ==
    IF i > last THEN <<>>
    ELSE LET t == Tok(i)
         IN  IF t = <<",">> THEN InOrder(i + 1, last, prev)
             ELSE (IF NeedsComma(prev, t) THEN <<",">> ELSE <<>>) \o Render(t)
                  \o InOrder(i + 1, last, t)

\* C7: the serialization of a successfully parsed root is its tokens in
\* input order, every member and item once, duplicate keys included, with
\* single commas between neighbours and none leading or trailing.
OrderPreserved == Succeeded => ToString(heap, rootObj) = InOrder(1, it, <<>>)

\* a successful parse of an object with two members of the same key
OrderPreservedWitness ==
    /\ Succeeded
    /\ \E q \in Elements :
          /\ heap[q].type = OBJECT_T /\ Len(heap[q].children) = 2
          /\ heap[heap[q].children[1]].key = heap[heap[q].children[2]].key
          /\ heap[heap[q].children[1]].type # heap[heap[q].children[2]].type

IsBareStart(c) == c \notin Whitespace \cup Structural \cup {QUOTE}

Least(S) == CHOOSE m \in S : \A j \in S : m <= j

\* every token Lex pushed for a bare run is the text from the run's first
\* character up to the next character of term, and Lex throws the
\* invalid-value error only at a bare run with no character of term after it
BareRule(term) ==
    /\ \A k \in 1..Len(lexed.tokens) :
          LET p == lexed.starts[k]
              T == { j \in p..Len(text) : text[j] \in term }
          IN  IsBareStart(text[p]) =>
                  (T # {} /\ lexed.tokens[k] = SubSeq(text, p, Least(T) - 1))
    /\ lexed.err = E_LEXING_ERR_INVALID_VALUE =>
          /\ IsBareStart(text[lexed.at])
          /\ \A j \in lexed.at..Len(text) : text[j] \notin term

\* C8: a bare token ends at the next whitespace or at any of the six
\* structural characters, ":" among them, and Lex fails with the
\* invalid-value error only when none follows.
BareValueRule == BareRule(Whitespace \cup Structural)

\* digits, e or E, digits
IsExponentNumeral(t) ==
    \E i \in 2..(Len(t) - 1) :
        /\ t[i] \in {"e", "E"}
        /\ \A j \in (1..Len(t)) \ {i} : t[j] \in Digits

\* C9: Parse on a token made of digits, e or E, and digits fails with
\* E_PARSE_ERR_INVALID_NUMBER and builds no element.
ExponentNumeralRejected ==
    [][(ParseGuard /\ IsExponentNumeral(Tok(it)))
          => (pc' = "done" /\ Err' = E_PARSE_ERR_INVALID_NUMBER /\ heap' = heap)]_vars

ClosingBracketError(fn) ==
    IF fn = "obj" THEN E_PARSE_ERR_OBJECT_CLOSING_BRACKET
    ELSE E_PARSE_ERR_ARRAY_CLOSING_BRACKET

\* C10: no token at or after the end of the token sequence is ever read, and
\* a constructor that ended with a production's iterator at the end ended
\* with that production's closing-bracket error.
MissingClosingBracket ==
    /\ ~oob
    /\ (pc = "done" /\ stack # <<>> /\ it = End) =>
          (outcome \in {"returned", "threw"} /\ Err = ClosingBracketError(Top.fn))

\* C11: Parse on a token that begins with a quote fails with the
\* invalid-string error unless the token is longer than two characters and
\* ends with a quote; otherwise the String it returns stores the token
\* without its first and last character, backslashes untouched, and
\* serializes as the token itself after its key prefix.
StringProduction ==
    [][(ParseGuard /\ IsStringToken(Tok(it))) =>
          LET t == Tok(it)
          IN  IF Len(t) > 2 /\ t[Len(t)] = QUOTE
              THEN /\ pc' \in ReturnPcs
                   /\ it' = it
                   /\ pOut' = Len(heap) + 1
                   /\ Len(heap') = Len(heap) + 1
                   /\ heap'[pOut'].type = STRING_T
                   /\ heap'[pOut'].sval = SubSeq(t, 2, Len(t) - 1)
                   /\ ToString(heap', pOut') = FormatKey(heap'[pOut']) \o t
              ELSE /\ pc' = "done"
                   /\ Err' = E_PARSE_ERR_INVALID_STRING
                   /\ heap' = heap]_vars

\* Parse returned a String whose value holds a backslash before a quote
StringProductionWitness ==
    /\ pc \in ReturnPcs /\ pOut # 0
    /\ heap[pOut].type = STRING_T
    /\ \E i \in 1..(Len(heap[pOut].sval) - 1) :
          heap[pOut].sval[i] = BACKSLASH /\ heap[pOut].sval[i + 1] = QUOTE

UnreachableCodes ==
    { E_PARSE_ERR_OBJECT_OPENING_BRACKET, E_PARSE_ERR_ARRAY_OPENING_BRACKET,
      E_PARSE_ERROR_INVALID_LITERAL_CASE }

\* C12: whatever the text and whatever SetAcceptCaseInsensitiveLiterals was
\* called with, no construction reports an opening-bracket error or the
\* invalid-literal-case error, in the slot or as the exception.
NeverReported == slot \notin UnreachableCodes /\ thrown \notin UnreachableCodes

\* a construction succeeded on a text with a literal that is not in lower
\* case, and the flag was set to false on the constructed JSON afterwards
NeverReportedWitness ==
    /\ Succeeded
    /\ ~acceptCI
    /\ \E k \in 1..Len(tokens) :
          IsLiteralToken(tokens[k]) /\ tokens[k] \notin {LitTrue, LitFalse, LitNull}

\* a token the spec's productions turn into a String, Bool, Null or Number
WellFormedAtom(t) ==
    IF IsStringToken(t) THEN Len(t) > 2 /\ t[Len(t)] = QUOTE
    ELSE IF IsLiteralToken(t) THEN TRUE
    ELSE /\ t \notin StructuralLexemes
         /\ IsValidNumber(t)
         /\ IF IsValidDecimal(t) THEN stold(t).res = "ok" ELSE stoll(t).res = "ok"

\* where the well-formed value that begins at token i of toks ends (0: there
\* is none), by the spec's productions: an object is "{", then commas and
\* members, each a key, a ":" and a value followed by "," or "}", up to "}";
\* an array likewise with items and "]"
RECURSIVE WellFormedEnd(_, _)
RECURSIVE WellFormedRest(_, _, _)
WellFormedEnd(toks, i) ==
    IF i > Len(toks) THEN 0
    ELSE IF toks[i] = <<"{">> THEN WellFormedRest(toks, i + 1, <<"}">>)
    ELSE IF toks[i] = <<"[">> THEN WellFormedRest(toks, i + 1, <<"]">>)
    ELSE IF WellFormedAtom(toks[i]) THEN i
    ELSE 0

WellFormedRest(toks, i, close) ==
    IF i > Len(toks) THEN 0
    ELSE IF toks[i] = close THEN i
    ELSE IF toks[i] = <<",">> THEN WellFormedRest(toks, i + 1, close)
    ELSE LET keyed == close = <<"}">>
             keyOk == /\ QuotedNonEmptyToken(toks[i])
                      /\ i + 1 <= Len(toks)
                      /\ toks[i + 1] = <<":">>
             v == IF keyed
                  THEN (IF keyOk THEN WellFormedEnd(toks, i + 2) ELSE 0)
                  ELSE WellFormedEnd(toks, i)
         IN  IF v = 0 \/ v + 1 > Len(toks) THEN 0
             ELSE IF toks[v + 1] \notin {<<",">>, close} THEN 0
             ELSE WellFormedRest(toks, v + 1, close)

\* the text lexed and its tokens begin with a well-formed object
BeginsWithObject ==
    /\ pc # "Construct"
    /\ lexed.err = E_NO_ERROR
    /\ lexed.tokens # <<>>
    /\ lexed.tokens[1] = <<"{">>
    /\ WellFormedEnd(lexed.tokens, 1) # 0

\* C13: when the text lexes and its tokens begin with a well-formed object,
\* the parser never goes or reads beyond that object's closing "}", and the
\* construction succeeds with the tree of the tokens up to that "}",
\* whatever tokens follow it.
TrailingTokensIgnored ==
    BeginsWithObject =>
        LET last == WellFormedEnd(lexed.tokens, 1)
        IN  /\ it <= last /\ Need <= last /\ ~oob
            /\ pc = "done" =>
                  /\ outcome = "returned" /\ Err = E_NO_ERROR
                  /\ rootObj # 0 /\ it = last
                  /\ ToString(heap, rootObj) = InOrder(1, last, <<>>)

\* a construction succeeded on tokens that go on after the root's "}"
TrailingTokensIgnoredWitness ==
    /\ Succeeded /\ BeginsWithObject
    /\ it < Len(tokens)
    /\ heap[rootObj].children # <<>>

====
